---- MODULE Spec2Model ----
(***************************************************************************)
(* Minerva simulation core: World/Scheduler orchestration, the rigid-body  *)
(* contact solver and the cell-list neighbor list.                         *)
(*                                                                         *)
(* Real-valued quantities (double in the source) are modelled exactly as   *)
(* integers in a fixed unit, chosen per subsystem so that every division   *)
(* the modelled runs perform is exact.                                     *)
(***************************************************************************)
EXTENDS Integers, Sequences, FiniteSets, TLC

VARIABLES
  \* ---- World / Scheduler (simcore/world.hpp, simcore/scheduler/scheduler.hpp)
  entries,       \* Scheduler::entries_ : sequence of [system, substeps]
  time,          \* World::time
  bodyX,         \* position.x of each element of World::rigid_bodies
  pc,            \* "idle", or "tick" while World::step is executing
  tickDt,        \* dt argument of the World::step call in progress / last made
  ei,            \* position of the range-for over entries_ (1-based)
  si,            \* loop variable s of the substep loop
  calls,         \* history: calls of ISystem::step made by the current/last tick
  tickStart,     \* history: World::time when the current/last World::step began
  sumDt,         \* history: sum of the dt arguments of all completed World::step calls
  nticks,        \* history: number of completed World::step calls
  \* ---- NeighborList (simcore/spatial/neighbor_list.{hpp,cpp})
  nlCfg,         \* NeighborList::cfg_
  nlGrid,        \* nx_, ny_, nz_ (cell_size_ is domain size / n per axis)
  nlCells,       \* cells_ : cell index -> particle indices, in insertion order
  nlPairs,       \* pairs_
  nlRef,         \* ref_positions_
  nlValid,       \* valid_
  nlStats,       \* stats_
  nlAsked,       \* history: whether the last operation on the list was needs_rebuild, and what it returned
  positions,     \* the caller's particle positions (the snapshot handed to build)
  \* ---- RigidBodySystem (modules/rb/rigid_body_system.{hpp,cpp})
  rbBodies,      \* World::rigid_bodies as stepped by the rigid-body system
  rbCfg,         \* RigidBodySystem::cfg_
  rbLog,         \* history: pairs the last step resolved, in order
  rbMissed,      \* history: pairs within their target separation the last step's stencil left out
  rbSteps,       \* history: number of RigidBodySystem::step calls made
  rbPre,         \* history: whether resolve_initial_overlaps has run, and the bodies it was given
  \* ---- MDSystem (modules/md/md_system.{hpp,cpp}); its neighbor_list_ is the
  \*      NeighborList above, its thread_local positions vector is `positions`
  mdCfg,         \* MDSystem::cfg_
  mdParticles,   \* World::md_particles : sequence of [position, velocity, mass, nan]
  mdSince,       \* MDSystem::steps_since_check_
  mdSteps,       \* history: number of MDSystem::step calls made
  mdBuilds,      \* history: number of NeighborList::build calls MDSystem has made
  mdEvals,       \* history: the force evaluations of the last step, in order
  mdOob,         \* history: the last step read positions[0] of an empty vector
  mdThermo,      \* history: what the last step's thermostat was given and whether it divided by zero
  mdLast,        \* history: whether the last step returned, checked the list, rebuilt it, forced a build
  \* ---- a second World, constructed like the first and stepped with the same calls
  twin           \* [on, time, bodies, ps, sys] of the second World and its MDSystem

schedVars == <<entries, time, bodyX, pc, tickDt, ei, si, calls, tickStart, sumDt, nticks>>

nlVars == <<nlCfg, nlGrid, nlCells, nlPairs, nlRef, nlValid, nlStats, nlAsked, positions>>

rbVars == <<rbBodies, rbCfg, rbLog, rbMissed, rbSteps, rbPre>>

mdVars == <<mdCfg, mdParticles, mdSince, mdSteps, mdBuilds, mdEvals, mdOob, mdThermo, mdLast>>

twinVars == <<twin>>

vars == <<schedVars, nlVars, rbVars, mdVars, twinVars>>

nonSchedVars == <<nlVars, rbVars, mdVars, twinVars>>
nonNlVars == <<schedVars, rbVars, mdVars, twinVars>>
nonRbVars == <<schedVars, nlVars, mdVars, twinVars>>
nonMdVars == <<schedVars, rbVars, twinVars>>

\* ------------------------------------------------------------------ bounds
MaxEntries  == 2    \* registered systems
MaxSubsteps == 3    \* largest substep count registered
MaxTicks    == 2    \* World::step calls per run
MaxParticles == 2   \* particles handed to the neighbor list
MaxBuilds   == 2    \* counted NeighborList::build calls per run
MaxRB       == 2    \* rigid bodies stepped by the rigid-body system
MaxRBSteps  == 2    \* RigidBodySystem::step calls per run
MaxMD       == 3    \* particles stepped by the MD system
MaxMDSteps  == 2    \* MDSystem::step calls per run
MaxChecks   == 2    \* counted NeighborList::needs_rebuild calls per run

\* ------------------------------------------------------------------ helpers
RECURSIVE Fact(_)
Fact(n) == IF n <= 1 THEN 1 ELSE n * Fact(n - 1)

\* One base increment, in time units: a multiple of every substep count in use,
\* so that dt / substeps is exact as it is for reals.
TickUnit == Fact(MaxSubsteps)

DtSet == {TickUnit, 2 * TickUnit}

\* Substep counts a caller may pass to Scheduler::add (an unchecked int).
SubstepsSet == {-1, 0, 1, 2, MaxSubsteps}

\* The mock systems of the ordering scenario.
SystemKinds == {"A", "B"}

RECURSIVE SumSeq(_)
SumSeq(s) == IF s = <<>> THEN 0 ELSE Head(s) + SumSeq(Tail(s))

\* =================================================================
\* Scheduler and World
\* =================================================================

\* scheduler.hpp:32  const double local_dt = dt / static_cast<double>(e.substeps);
LocalDt_NoDivide(dt, substeps) == dt
LocalDt(dt, substeps) == dt \div substeps

\* position.x is a double: the value m * 2^e, kept with m odd (or m = e = 0 for
\* zero), so that doubling is exact however often it is repeated.
RECURSIVE DblNorm(_, _)
DblNorm(m, e) ==
  IF m = 0 THEN [m |-> 0, e |-> 0]
  ELSE IF m % 2 = 0 THEN DblNorm(m \div 2, e + 1)
  ELSE [m |-> m, e |-> e]
Dbl(n) == DblNorm(n, 0)
DblTwice(x) == IF x.m = 0 THEN x ELSE [x EXCEPT !.e = @ + 1]

\* ISystem::step of the two mock systems: A writes world.time to every body's
\* position.x, B doubles every position.x.
SystemStep_BNoop(sys, xs, t, h) ==
  IF sys = "A" THEN [k \in DOMAIN xs |-> Dbl(t)] ELSE xs
SystemStep(sys, xs, t, h) ==
  IF sys = "A" THEN [k \in DOMAIN xs |-> Dbl(t)]
  ELSE [k \in DOMAIN xs |-> DblTwice(xs[k])]

\* scheduler.hpp:26-28  Scheduler::add
Add(sys, substeps) ==
  /\ pc = "idle"
  /\ Len(entries) < MaxEntries
  /\ entries' = Append(entries, [system |-> sys, substeps |-> substeps])
  /\ UNCHANGED <<time, bodyX, pc, tickDt, ei, si, calls, tickStart, sumDt, nticks, nonSchedVars>>

\* world.hpp:23-24  World::step entered, Scheduler::tick entered
StepBegin(dt) ==
  /\ pc = "idle"
  /\ nticks < MaxTicks
  /\ pc' = "tick"
  /\ tickDt' = dt
  /\ ei' = 1
  /\ si' = 0
  /\ calls' = <<>>
  /\ tickStart' = time
  /\ UNCHANGED <<entries, time, bodyX, sumDt, nticks, nonSchedVars>>

\* scheduler.hpp:33-35  one iteration of the substep loop: e.system->step(world, local_dt)
SubstepCall_Reverse ==
  /\ pc = "tick"
  /\ ei <= Len(entries)
  /\ si < entries[ei].substeps
  /\ LET h == LocalDt(tickDt, entries[ei].substeps)
         r == Len(entries) + 1 - ei
     IN /\ bodyX' = SystemStep(entries[r].system, bodyX, time, h)
        /\ calls' = Append(calls, [idx |-> r, system |-> entries[r].system, h |-> h])
  /\ si' = si + 1
  /\ UNCHANGED <<entries, time, pc, tickDt, ei, tickStart, sumDt, nticks, nonSchedVars>>
SubstepCall ==
  /\ pc = "tick"
  /\ ei <= Len(entries)
  /\ si < entries[ei].substeps
  /\ LET h == LocalDt(tickDt, entries[ei].substeps)
     IN /\ bodyX' = SystemStep(entries[ei].system, bodyX, time, h)
        /\ calls' = Append(calls, [idx |-> ei, system |-> entries[ei].system, h |-> h])
  /\ si' = si + 1
  /\ UNCHANGED <<entries, time, pc, tickDt, ei, tickStart, sumDt, nticks, nonSchedVars>>

\* scheduler.hpp:31,33  substep loop of the current entry exhausted: next entry
NextEntry ==
  /\ pc = "tick"
  /\ ei <= Len(entries)
  /\ ~(si < entries[ei].substeps)
  /\ ei' = ei + 1
  /\ si' = 0
  /\ UNCHANGED <<entries, time, bodyX, pc, tickDt, calls, tickStart, sumDt, nticks, nonSchedVars>>

\* world.hpp:25  Scheduler::tick returned; time += dt; World::step returns
StepEnd_PerCall ==
  /\ pc = "tick"
  /\ ei > Len(entries)
  /\ time' = time + tickDt * (IF Len(calls) > 1 THEN Len(calls) ELSE 1)
  /\ sumDt' = sumDt + tickDt
  /\ nticks' = nticks + 1
  /\ pc' = "idle"
  /\ UNCHANGED <<entries, bodyX, tickDt, ei, si, calls, tickStart, nonSchedVars>>
StepEnd ==
  /\ pc = "tick"
  /\ ei > Len(entries)
  /\ time' = time + tickDt
  /\ sumDt' = sumDt + tickDt
  /\ nticks' = nticks + 1
  /\ pc' = "idle"
  /\ UNCHANGED <<entries, bodyX, tickDt, ei, si, calls, tickStart, nonSchedVars>>


\* =================================================================
\* NeighborList
\* =================================================================
\* Lengths are integers in a unit in which cutoff, skin and all coordinates
\* are whole; cell_size_factor is the fraction csfNum / csfDen.  Particle
\* indices are 1-based (index k here is std::size_t k-1 in the source).

\* The value of a one-element set: a local variable computed once.
The(S) == CHOOSE x \in S : TRUE

Max2(a, b) == IF a >= b THEN a ELSE b
Min2(a, b) == IF a <= b THEN a ELSE b

\* static_cast<int>(a / b) for b # 0: truncation toward zero
TruncDiv(a, b) ==
  LET q == (IF a >= 0 THEN a ELSE -a) \div (IF b >= 0 THEN b ELSE -b)
  IN IF (a >= 0) = (b >= 0) THEN q ELSE -q

\* Vec3::norm2 of (q - p)
Dist2(p, q) ==
  (q[1] - p[1]) * (q[1] - p[1]) + (q[2] - p[2]) * (q[2] - p[2]) + (q[3] - p[3]) * (q[3] - p[3])

\* ss[lo] \o ... \o ss[hi]
RECURSIVE ConcatRange(_, _, _)
ConcatRange(ss, lo, hi) ==
  IF lo > hi THEN <<>>
  ELSE IF lo = hi THEN ss[lo]
  ELSE LET mid == (lo + hi) \div 2
       IN ConcatRange(ss, lo, mid) \o ConcatRange(ss, mid + 1, hi)

Concat(ss) == ConcatRange(ss, 1, Len(ss))

\* neighbor_list.cpp:17  Vec3 domain_size = cfg_.domain_max - cfg_.domain_min;
DomainSize(cfg) == [a \in 1..3 |-> cfg.domain_max[a] - cfg.domain_min[a]]

\* neighbor_list.cpp:12-30  NeighborList::setup_grid: the grid dimensions
\*   min_cell_size = (cutoff + skin) * cell_size_factor
\*   n = max(1, static_cast<int>(domain_size / min_cell_size))
SetupGrid(cfg) ==
  [a \in 1..3 |->
     Max2(1, TruncDiv(DomainSize(cfg)[a] * cfg.csfDen, (cfg.cutoff + cfg.skin) * cfg.csfNum))]

\* neighbor_list.cpp:36-42  NeighborList::get_cell_coords before the clamp, with
\*   cell_size_ = domain_size / n  (lines 24-26), so rel / cell_size = rel * n / domain_size
RawCellCoords(cfg, grid, pos) ==
  [a \in 1..3 |->
     TruncDiv((pos[a] - cfg.domain_min[a]) * grid[a], DomainSize(cfg)[a])]

\* neighbor_list.cpp:44-47  the clamp to 0 .. n - 1
GetCellCoords(cfg, grid, pos) ==
  [a \in 1..3 |->
     Max2(0, Min2(grid[a] - 1, RawCellCoords(cfg, grid, pos)[a]))]

\* neighbor_list.cpp:50-54  NeighborList::get_cell_index
GetCellIndex(cfg, grid, pos) ==
  LET c == GetCellCoords(cfg, grid, pos)
  IN c[1] + grid[1] * (c[2] + grid[2] * c[3])

TotalCells(grid) == grid[1] * grid[2] * grid[3]

\* neighbor_list.cpp:61-69  clear every cell, then push_back each particle index
\* into its cell in increasing index order
AssignCells(cfg, grid, pos) ==
  [c \in 0..(TotalCells(grid) - 1) |->
     SelectSeq([k \in 1..Len(pos) |-> k], LAMBDA k : GetCellIndex(cfg, grid, pos[k]) = c)]

\* neighbor_list.cpp:88,106,140  r2 < r_list_sq
InListRange(cfg, pos, i, j) ==
  Dist2(pos[i], pos[j]) < (cfg.cutoff + cfg.skin) * (cfg.cutoff + cfg.skin)

\* neighbor_list.cpp:98-110  pairs within one cell: b runs from a + 1
IntraCellPairs(cfg, pos, cp) ==
  Concat([a \in 1..Len(cp) |->
            SelectSeq([b \in 1..(Len(cp) - a) |-> <<cp[a], cp[a + b]>>],
                      LAMBDA pr : InListRange(cfg, pos, pr[1], pr[2]))])

\* neighbor_list.cpp:135-144  all pairs between the current cell and one neighbor cell
CrossCellPairs(cfg, pos, cp, np) ==
  Concat([a \in 1..Len(cp) |->
            SelectSeq([b \in 1..Len(np) |-> <<cp[a], np[b]>>],
                      LAMBDA pr : InListRange(cfg, pos, pr[1], pr[2]))])

\* neighbor_list.cpp:113-115  the offsets in loop order: dz outermost, dx innermost
StencilOffsets ==
  [k \in 1..18 |-> << ((k - 1) % 3) - 1, (((k - 1) \div 3) % 3) - 1, (k - 1) \div 9 >>]

\* neighbor_list.cpp:117,120  offsets the half-shell leaves out
OffsetSkipped_SelfOnly(dx, dy, dz) ==
  (dz = 0 /\ dy = 0 /\ dx = 0)
OffsetSkipped(dx, dy, dz) ==
  \/ (dz = 0 /\ dy = 0 /\ dx = 0)
  \/ (dz = 0 /\ (dy < 0 \/ (dy = 0 /\ dx < 0)))

HalfShell == SelectSeq(StencilOffsets, LAMBDA o : ~OffsetSkipped(o[1], o[2], o[3]))

\* neighbor_list.cpp:122-129  neighbor cell coordinates inside the grid
InGrid(grid, x, y, z) ==
  ~(x < 0 \/ x >= grid[1] \/ y < 0 \/ y >= grid[2] \/ z < 0 \/ z >= grid[3])

\* neighbor_list.cpp:94-147  everything build_pairs appends for the cell (ix, iy, iz)
PairsOfCell(cfg, grid, cells, pos, ix, iy, iz) ==
  LET cp == cells[ix + grid[1] * (iy + grid[2] * iz)]
  IN IF cp = <<>> THEN <<>>    \* every loop over the cell's particles is empty
     ELSE
     IntraCellPairs(cfg, pos, cp) \o
     Concat([k \in 1..Len(HalfShell) |->
               LET x == ix + HalfShell[k][1]
                   y == iy + HalfShell[k][2]
                   z == iz + HalfShell[k][3]
               IN IF InGrid(grid, x, y, z)
                  THEN CrossCellPairs(cfg, pos, cp, cells[x + grid[1] * (y + grid[2] * z)])
                  ELSE <<>>])

\* neighbor_list.cpp:87-151  NeighborList::build_pairs: cells in the order
\* iz, iy, ix, which is increasing cell index
BuildPairs(cfg, grid, cells, pos) ==
  Concat([c \in 1..TotalCells(grid) |->
            PairsOfCell(cfg, grid, cells, pos,
                        (c - 1) % grid[1],
                        ((c - 1) \div grid[1]) % grid[2],
                        (c - 1) \div (grid[1] * grid[2]))])

\* needs_rebuild was not the last operation on the list
NoAsk == [asked |-> FALSE, value |-> FALSE]

\* neighbor_list.cpp:56-85  NeighborList::build(positions)
NLBuild_KeepPairs ==
  /\ nlStats.total_builds < MaxBuilds
  /\ LET cells == AssignCells(nlCfg, nlGrid, positions)
         prs   == nlPairs \o BuildPairs(nlCfg, nlGrid, cells, positions)
     IN /\ nlCells' = cells
        /\ nlPairs' = prs
        /\ nlStats' = IF nlCfg.enable_stats
                      THEN [nlStats EXCEPT !.total_builds = @ + 1, !.num_pairs = Len(prs)]
                      ELSE nlStats
  /\ nlRef' = positions
  /\ nlValid' = TRUE
  /\ nlAsked' = NoAsk
  /\ UNCHANGED <<nlCfg, nlGrid, positions, nonNlVars>>
NLBuild ==
  /\ nlStats.total_builds < MaxBuilds
  /\ LET cells == AssignCells(nlCfg, nlGrid, positions)
         prs   == BuildPairs(nlCfg, nlGrid, cells, positions)
     IN /\ nlCells' = cells
        /\ nlPairs' = prs
        /\ nlStats' = IF nlCfg.enable_stats
                      THEN [nlStats EXCEPT !.total_builds = @ + 1, !.num_pairs = Len(prs)]
                      ELSE nlStats
  /\ nlRef' = positions
  /\ nlValid' = TRUE
  /\ nlAsked' = NoAsk
  /\ UNCHANGED <<nlCfg, nlGrid, positions, nonNlVars>>

\* The stretch of the line y = z = 1 on which moving particles live.
LineCoords == (0..3) \X {1} \X {1}

\* The owner of the particles moves particle k by one unit along one axis,
\* within a region (MDSystem::integrate drift, md_system.cpp:175).
MoveWithin(region, k, a, d) ==
  /\ k \in 1..Len(positions)
  /\ [positions[k] EXCEPT ![a] = @ + d] \in region
  /\ positions' = [positions EXCEPT ![k][a] = @ + d]
  /\ nlAsked' = NoAsk
  /\ UNCHANGED <<nlCfg, nlGrid, nlCells, nlPairs, nlRef, nlValid, nlStats, nonNlVars>>

\* The same within the stretch LineCoords.
MoveParticle(k, a, d) ==
  /\ k \in 1..Len(positions)
  /\ [positions[k] EXCEPT ![a] = @ + d] \in LineCoords
  /\ positions' = [positions EXCEPT ![k][a] = @ + d]
  /\ nlAsked' = NoAsk
  /\ UNCHANGED <<nlCfg, nlGrid, nlCells, nlPairs, nlRef, nlValid, nlStats, nonNlVars>>

\* neighbor_list.hpp:60  NeighborList::invalidate
Invalidate ==
  /\ nlValid
  /\ nlValid' = FALSE
  /\ nlAsked' = NoAsk
  /\ UNCHANGED <<nlCfg, nlGrid, nlCells, nlPairs, nlRef, nlStats, positions, nonNlVars>>

\* Configurations the list is constructed with (neighbor_list.hpp:15-25):
\* cutoff > 0, skin >= 0, cell_size_factor > 0, domain_max > domain_min.
NLConfigs ==
  { [cutoff |-> 1, skin |-> 1, csfNum |-> 1, csfDen |-> 1,
     domain_min |-> <<0, 0, 0>>, domain_max |-> <<4, 4, 4>>, enable_stats |-> TRUE],
    [cutoff |-> 2, skin |-> 0, csfNum |-> 2, csfDen |-> 1,
     domain_min |-> <<0, 0, 0>>, domain_max |-> <<8, 8, 8>>, enable_stats |-> FALSE],
    [cutoff |-> 1, skin |-> 2, csfNum |-> 1, csfDen |-> 1,
     domain_min |-> <<0, 0, 0>>, domain_max |-> <<6, 6, 6>>, enable_stats |-> FALSE],
    [cutoff |-> 1, skin |-> 1, csfNum |-> 1, csfDen |-> 1,
     domain_min |-> <<1, 0, 0>>, domain_max |-> <<5, 3, 2>>, enable_stats |-> FALSE],
    [cutoff |-> 2, skin |-> 1, csfNum |-> 1, csfDen |-> 3,
     domain_min |-> <<0, 0, 0>>, domain_max |-> <<4, 2, 2>>, enable_stats |-> FALSE] }

Coords == {-1, 1, 2, 3} \X {1, 2} \X {1, 2}

\* neighbor_list.cpp:8-10 and neighbor_list.hpp:62-77: a list just constructed
\* from cfg (setup_grid has run, nothing built, valid_ false)
NLConstructed(cfg) ==
  /\ nlCfg = cfg
  /\ nlGrid = SetupGrid(cfg)
  /\ nlCells = [c \in 0..(TotalCells(SetupGrid(cfg)) - 1) |-> <<>>]
  /\ nlPairs = <<>>
  /\ nlRef = <<>>
  /\ nlValid = FALSE
  /\ nlStats = [total_builds |-> 0, total_checks |-> 0, max_disp_sq |-> 0, num_pairs |-> 0]
  /\ nlAsked = NoAsk

NLUnused ==
  /\ NLConstructed(CHOOSE c \in NLConfigs : c.enable_stats)
  /\ positions = <<>>

\* Configurations of the system (rigid_body_system.hpp:6-15), in units of 1/Q.
RBConfigs ==
  { [restitution |-> 500, ground_y |-> 0, substeps |-> 2, pair_iterations |-> 2,
     penetration_slop |-> 10, contact_offset |-> 20, baumgarte |-> 1000],
    [restitution |-> 1000, ground_y |-> 100, substeps |-> 1, pair_iterations |-> 1,
     penetration_slop |-> 0, contact_offset |-> 0, baumgarte |-> 800] }

\* resolve_initial_overlaps has not been called
NoPre == [done |-> FALSE, before |-> <<>>, after |-> <<>>, converged |-> FALSE, visits |-> <<>>]

RBUnused ==
  /\ rbBodies = <<>>
  /\ rbCfg = CHOOSE c \in RBConfigs : c.substeps = 2
  /\ rbLog = <<>>
  /\ rbMissed = <<>>
  /\ rbSteps = 0
  /\ rbPre = NoPre

\* Default MDConfig (md_system.hpp:12-24), in units of 1/1000, and an MD
\* system that is never stepped.
MDDefault ==
  [epsilon |-> 1000, sigma |-> 1000, rcut_sigma |-> 2500, nvt |-> FALSE,
   temp |-> 1000, tau_thermo |-> 1000,
   use_neighbor_list |-> FALSE, nlist_skin |-> 300, nlist_check_interval |-> 10]

\* No second World is run.
NoTwin == [on |-> FALSE]

\* No MDSystem::step call has been made.
NoStep == [returned |-> TRUE, checked |-> FALSE, rebuilt |-> FALSE, forced |-> FALSE]

MDUnused ==
  /\ twin = NoTwin
  /\ mdCfg = MDDefault
  /\ mdParticles = <<>>
  /\ mdSince = 0
  /\ mdSteps = 0
  /\ mdBuilds = 0
  /\ mdEvals = <<>>
  /\ mdOob = FALSE
  /\ mdThermo = [applied |-> FALSE, before |-> <<>>, div_zero |-> FALSE]
  /\ mdLast = NoStep

SchedUnused ==
  /\ entries = <<>>
  /\ time = 0
  /\ bodyX = <<>>
  /\ pc = "idle"
  /\ tickDt = 0
  /\ ei = 1
  /\ si = 0
  /\ calls = <<>>
  /\ tickStart = 0
  /\ sumDt = 0
  /\ nticks = 0

\* A fresh World (world.hpp:13-21) with some bodies appended by scene setup
\* and an empty Scheduler.
InitSched ==
  /\ entries = <<>>
  /\ time = 0
  /\ bodyX \in {<<>>, <<Dbl(1), Dbl(5)>>}
  /\ pc = "idle"
  /\ tickDt = 0
  /\ ei = 1
  /\ si = 0
  /\ calls = <<>>
  /\ tickStart = 0
  /\ sumDt = 0
  /\ nticks = 0
  /\ NLUnused
  /\ RBUnused
  /\ MDUnused

Init == InitSched

Next ==
  \/ \E sys \in SystemKinds, s \in SubstepsSet : Add(sys, s)
  \/ \E dt \in DtSet : StepBegin(dt)
  \/ SubstepCall
  \/ NextEntry
  \/ StepEnd

Spec == Init /\ [][Next]_vars

InitNL ==
  /\ \E cfg \in NLConfigs : NLConstructed(cfg)
  /\ \E n \in 0..MaxParticles : positions \in [1..n -> Coords]
  /\ SchedUnused
  /\ RBUnused
  /\ MDUnused

NextNL ==
  \/ NLBuild
  \/ Invalidate

\* Builds of arbitrary snapshots in three dimensions.
SpecNL == InitNL /\ [][NextNL]_vars

\* Particles on the line y = z = 1 that move along x between builds.
InitNLMove ==
  /\ \E cfg \in NLConfigs : NLConstructed(cfg)
  /\ \E n \in 0..MaxParticles : positions \in [1..n -> LineCoords]
  /\ SchedUnused
  /\ RBUnused
  /\ MDUnused

NextNLMove ==
  \/ NLBuild
  \/ \E k \in 1..MaxParticles, d \in {-1, 1} : MoveParticle(k, 1, d)
  \/ Invalidate

SpecNLMove == InitNLMove /\ [][NextNLMove]_vars

\* Configurations neighbor_list.hpp:15-25 also admits, every field being a
\* plain double or Vec3: a cutoff of 0, a negative cutoff, and a domain whose
\* maximum lies below its minimum on the x axis.
NLBadConfigs ==
  { [cutoff |-> 0, skin |-> 1, csfNum |-> 1, csfDen |-> 1,
     domain_min |-> <<0, 0, 0>>, domain_max |-> <<4, 4, 4>>, enable_stats |-> TRUE],
    [cutoff |-> -1, skin |-> 0, csfNum |-> 1, csfDen |-> 1,
     domain_min |-> <<0, 0, 0>>, domain_max |-> <<4, 4, 4>>, enable_stats |-> TRUE],
    [cutoff |-> 1, skin |-> 1, csfNum |-> 1, csfDen |-> 1,
     domain_min |-> <<4, 0, 0>>, domain_max |-> <<0, 4, 4>>, enable_stats |-> TRUE] }

\* neighbor_list.cpp:8-10  NeighborList::NeighborList(cfg): the owner replaces
\* its list by one constructed from cfg
NLConstruct(cfg) ==
  /\ nlCfg' = cfg
  /\ nlGrid' = SetupGrid(cfg)
  /\ nlCells' = [c \in 0..(TotalCells(SetupGrid(cfg)) - 1) |-> <<>>]
  /\ nlPairs' = <<>>
  /\ nlRef' = <<>>
  /\ nlValid' = FALSE
  /\ nlStats' = [total_builds |-> 0, total_checks |-> 0, max_disp_sq |-> 0, num_pairs |-> 0]
  /\ nlAsked' = NoAsk
  /\ UNCHANGED <<positions, nonNlVars>>

NextNLCtor ==
  \/ \E cfg \in NLConfigs \cup NLBadConfigs : NLConstruct(cfg)
  \/ NLBuild
  \/ Invalidate

\* Lists constructed from any configuration, then built over particles on the
\* line y = z = 1.
SpecNLCtor == InitNLMove /\ [][NextNLCtor]_vars

\* =================================================================
\* RigidBodySystem::step
\* =================================================================
\* Doubles are fixed-point integers with Q units per 1.0; a product of two
\* such values is divided by Q, a quotient multiplied by Q, both truncated
\* toward zero.  Squared lengths are kept in units of 1/Q^2.

Q == 1000

MulQ(a, b) == TruncDiv(a * b, Q)
DivQ(a, b) == TruncDiv(a * Q, b)

RECURSIVE ISqrtBetween(_, _, _)
ISqrtBetween(n, lo, hi) ==
  IF hi - lo <= 1 THEN lo
  ELSE LET mid == (lo + hi) \div 2
       IN IF mid * mid <= n THEN ISqrtBetween(n, mid, hi) ELSE ISqrtBetween(n, lo, mid)

\* std::sqrt on a squared length: largest r with r*r <= n
ISqrt(n) == IF n <= 0 THEN 0 ELSE ISqrtBetween(n, 0, 46341)

VAdd(u, v) == <<u[1] + v[1], u[2] + v[2], u[3] + v[3]>>
VSub(u, v) == <<u[1] - v[1], u[2] - v[2], u[3] - v[3]>>
VScale(u, k) == <<MulQ(u[1], k), MulQ(u[2], k), MulQ(u[3], k)>>
VDot(u, v) == TruncDiv(u[1] * v[1] + u[2] * v[2] + u[3] * v[3], Q)
VNorm2(u) == u[1] * u[1] + u[2] * u[2] + u[3] * u[3]

\* world.hpp:14 (rounded to the unit)
Gravity == <<0, -9810, 0>>

GroundDamp == 980     \* rigid_body_system.cpp:43-44, 143-144  (0.98)
PairDamp == 999       \* rigid_body_system.cpp:124-125  (0.999)
PushDownNy == 200     \* rigid_body_system.cpp:106-107  (0.2)
GroundedEps == 1      \* rigid_body_system.cpp:99  (1e-6, the smallest positive value of the unit)
MinCellSize == 1      \* rigid_body_system.cpp:55  (1e-6, the smallest positive value of the unit)

\* rigid_body_system.cpp:37,138  cfg_.ground_y + rb.radius + cfg_.contact_offset
GroundTargetY(cfg, rb) == cfg.ground_y + rb.radius + cfg.contact_offset

\* rigid_body_system.cpp:38-46, 139-146  snap to the ground target and reflect
ClampToGround(cfg, rb) ==
  IF rb.position[2] < GroundTargetY(cfg, rb)
  THEN [rb EXCEPT
          !.position = <<rb.position[1], GroundTargetY(cfg, rb), rb.position[3]>>,
          !.velocity = IF rb.velocity[2] < 0
                       THEN << MulQ(rb.velocity[1], GroundDamp),
                               MulQ(-cfg.restitution, rb.velocity[2]),
                               MulQ(rb.velocity[3], GroundDamp) >>
                       ELSE rb.velocity]
  ELSE rb

\* rigid_body_system.cpp:33-47  1) integrate with gravity and handle the ground plane
IntegrateBody(cfg, rb, h) ==
  IF rb.kinematic \/ rb.mass <= 0 THEN rb
  ELSE LET v1 == VAdd(rb.velocity, VScale(Gravity, h))
           p1 == VAdd(rb.position, VScale(v1, h))
       IN ClampToGround(cfg, [rb EXCEPT !.velocity = v1, !.position = p1])

IntegratePass(cfg, bodies, h) == [k \in DOMAIN bodies |-> IntegrateBody(cfg, bodies[k], h)]

\* rigid_body_system.cpp:137-147  4) final ground-plane clamp, every body
FinalGroundClamp_None(cfg, bodies) == bodies
FinalGroundClamp(cfg, bodies) == [k \in DOMAIN bodies |-> ClampToGround(cfg, bodies[k])]

\* rigid_body_system.cpp:50-53
MaxRadius(bodies) ==
  LET rs == {bodies[k].radius : k \in DOMAIN bodies} \cup {0}
  IN CHOOSE r \in rs : \A q \in rs : q <= r

\* rigid_body_system.cpp:55  std::max(2.0 * max_r, 1e-6)
CellSize(bodies) == Max2(2 * MaxRadius(bodies), MinCellSize)

\* rigid_body_system.cpp:56-60  cell_of: floor of each coordinate over cell_size
CellOf(pos, cell_size) == <<pos[1] \div cell_size, pos[2] \div cell_size, pos[3] \div cell_size>>

\* rigid_body_system.cpp:66-71  the indices the hash grid holds for one key,
\* in insertion (index) order
GridCell(snapshot, cell_size, key) ==
  SelectSeq([k \in 1..Len(snapshot) |-> k],
            LAMBDA k : CellOf(snapshot[k].position, cell_size) = key)

\* rigid_body_system.cpp:78-80  the 27 offsets in loop order: dx outermost, dz innermost
RBStencil ==
  [k \in 1..27 |-> << ((k - 1) \div 9) - 1, (((k - 1) \div 3) % 3) - 1, ((k - 1) % 3) - 1 >>]

\* rigid_body_system.cpp:77-86  the indices j body i meets, in visiting order:
\* the cells around ka in the grid of the iteration's start, j <= i skipped
Candidates_Unordered(snapshot, cell_size, ka, i) ==
  SelectSeq(Concat([k \in 1..27 |-> GridCell(snapshot, cell_size, VAdd(ka, RBStencil[k]))]),
            LAMBDA j : j # i)
Candidates(snapshot, cell_size, ka, i) ==
  SelectSeq(Concat([k \in 1..27 |-> GridCell(snapshot, cell_size, VAdd(ka, RBStencil[k]))]),
            LAMBDA j : ~(j <= i))

\* rigid_body_system.cpp:98-100
Grounded(cfg, rb) ==
  (rb.position[2] - rb.radius) <= (cfg.ground_y + cfg.contact_offset + GroundedEps)

\* rigid_body_system.cpp:124-125  a.velocity *= 0.999; b.velocity *= 0.999;
DampPair_DynamicOnly(va, vb, a_static, b_static) ==
  << IF a_static THEN va ELSE VScale(va, PairDamp), IF b_static THEN vb ELSE VScale(vb, PairDamp) >>
DampPair(va, vb, a_static, b_static) == << VScale(va, PairDamp), VScale(vb, PairDamp) >>

\* rigid_body_system.cpp:87-126  one pair (a = bodies[i], b = bodies[j]);
\* st = [bodies, max_pen, log]; a log entry records the pair, the two bodies
\* before (a0, b0) and after (a1, b1), and the velocities after the impulse
\* and before the damping (va, vb)
ResolvePair(cfg, st, i, j) ==
  LET a == st.bodies[i]
      b == st.bodies[j]
      min_dist == a.radius + b.radius
      d == VSub(b.position, a.position)
      d2 == VNorm2(d)
      target_sep == min_dist + cfg.contact_offset
      \* sqrt(max(d2, 1e-16)): 1e-8 for coincident centres, which is above the
      \* 1e-12 threshold of line 94, so n = d / dist is the zero vector there
      dist == ISqrt(d2)
      n == IF d2 > 0 THEN <<DivQ(d[1], dist), DivQ(d[2], dist), DivQ(d[3], dist)>>
           ELSE <<0, 0, 0>>
      penetration == Max2(target_sep - dist, 0)
      max_pen == Max2(st.max_pen, penetration)
      a_static == a.kinematic \/ a.mass <= 0 \/ (Grounded(cfg, a) /\ n[2] > PushDownNy)
      b_static == b.kinematic \/ b.mass <= 0 \/ (Grounded(cfg, b) /\ n[2] < -PushDownNy)
      invMa == IF a_static THEN 0 ELSE DivQ(Q, a.mass)
      invMb == IF b_static THEN 0 ELSE DivQ(Q, b.mass)
      inv_sum == invMa + invMb
      corr == VScale(n, DivQ(MulQ(cfg.baumgarte, penetration), inv_sum))
      pa == IF ~a_static THEN VSub(a.position, VScale(corr, invMa)) ELSE a.position
      pb == IF ~b_static THEN VAdd(b.position, VScale(corr, invMb)) ELSE b.position
      vn == VDot(VSub(b.velocity, a.velocity), n)
      impulse == VScale(n, DivQ(MulQ(-(Q + cfg.restitution), vn), inv_sum))
      va == IF ~a_static THEN VSub(a.velocity, VScale(impulse, invMa)) ELSE a.velocity
      vb == IF ~b_static THEN VAdd(b.velocity, VScale(impulse, invMb)) ELSE b.velocity
      damped == DampPair(va, vb, a_static, b_static)
      a1 == [a EXCEPT !.position = pa, !.velocity = IF vn < 0 THEN damped[1] ELSE a.velocity]
      b1 == [b EXCEPT !.position = pb, !.velocity = IF vn < 0 THEN damped[2] ELSE b.velocity]
  IN IF d2 >= target_sep * target_sep THEN st
     ELSE IF inv_sum <= 0
       THEN [st EXCEPT !.max_pen = max_pen,
                       !.log = Append(@, [i |-> i, j |-> j, iter |-> st.iter, pass |-> st.pass, skipped |-> TRUE,
                                          impulse |-> FALSE,
                                          a_static |-> a_static, b_static |-> b_static,
                                          a0 |-> a, b0 |-> b, va |-> a.velocity, vb |-> b.velocity,
                                          a1 |-> a, b1 |-> b])]
     ELSE [st EXCEPT
             !.max_pen = max_pen,
             !.bodies = [st.bodies EXCEPT ![i] = a1, ![j] = b1],
             !.log = Append(@, [i |-> i, j |-> j, iter |-> st.iter, pass |-> st.pass, skipped |-> FALSE,
                                impulse |-> (vn < 0),
                                a_static |-> a_static, b_static |-> b_static,
                                a0 |-> a, b0 |-> b, va |-> va, vb |-> vb,
                                a1 |-> a1, b1 |-> b1])]

\* rigid_body_system.cpp:85-127  the loop over the candidates of body i
RECURSIVE ResolveCandidates(_, _, _, _)
ResolveCandidates(cfg, st, i, cands) ==
  IF cands = <<>> THEN st
  ELSE The({ ResolveCandidates(cfg, next, i, Tail(cands))
             : next \in {ResolvePair(cfg, st, i, Head(cands))} })

\* rigid_body_system.cpp:87-91  the bodies j > i closer to body i than the
\* target separation of the pair (the pairs line 91 does not skip)
WithinTarget(cfg, bodies, i) ==
  SelectSeq([k \in 1..(Len(bodies) - i) |-> i + k],
            LAMBDA j : LET t == bodies[i].radius + bodies[j].radius + cfg.contact_offset
                       IN VNorm2(VSub(bodies[j].position, bodies[i].position)) < t * t)

\* the members of seq that are not in cands, as entries of the history
LeftOut(seq, cands, i, pass) ==
  LET out == SelectSeq(seq, LAMBDA j : \A c \in 1..Len(cands) : cands[c] # j)
  IN [k \in 1..Len(out) |-> [i |-> i, j |-> out[k], pass |-> pass]]

\* rigid_body_system.cpp:75-131  the loop over i; ka is taken from the current
\* position of body i, the grid from the positions at the iteration's start
RECURSIVE ResolveBodiesFrom(_, _, _, _, _)
ResolveBodiesFrom(cfg, st, snapshot, cell_size, i) ==
  IF i > Len(st.bodies) THEN st
  ELSE The({ The({ The({ ResolveBodiesFrom(cfg, next, snapshot, cell_size, i + 1)
                         : next \in {ResolveCandidates(cfg, seen, i, cands)} })
                   : seen \in {[st EXCEPT !.missed = @ \o LeftOut(WithinTarget(cfg, st.bodies, i),
                                                                 cands, i, st.pass)]} })
             : cands \in {Candidates(snapshot, cell_size,
                                     CellOf(st.bodies[i].position, cell_size), i)} })

\* rigid_body_system.cpp:63-133  3) iterative pair resolution, with the early
\* exit of line 132; hist = [log, missed], pass numbers the iterations of
\* one step that examined a pair
RECURSIVE PairIterations(_, _, _, _)
PairIterations(cfg, bodies, hist, iter) ==
  IF iter >= Max2(1, cfg.pair_iterations) THEN [bodies |-> bodies, log |-> hist.log, missed |-> hist.missed]
  ELSE The({ IF st.max_pen < Max2(0, cfg.penetration_slop)
             THEN [bodies |-> st.bodies, log |-> st.log, missed |-> st.missed]
             ELSE PairIterations(cfg, st.bodies, [log |-> st.log, missed |-> st.missed], iter + 1)
             : st \in {ResolveBodiesFrom(cfg,
                         [bodies |-> bodies, max_pen |-> 0, log |-> hist.log, iter |-> iter,
                          missed |-> hist.missed,
                          pass |-> IF hist.log = <<>> THEN 1 ELSE hist.log[Len(hist.log)].pass + 1],
                         bodies, CellSize(bodies), 1)} })

\* rigid_body_system.cpp:54  pair resolution runs only when some radius is positive
PairResolution(cfg, bodies, hist) ==
  IF MaxRadius(bodies) > 0 THEN PairIterations(cfg, bodies, hist, 0)
  ELSE [bodies |-> bodies, log |-> hist.log, missed |-> hist.missed]

\* rigid_body_system.cpp:31-148  one internal substep
RBSubstep(cfg, w, h) ==
  The({ [bodies |-> FinalGroundClamp(cfg, r.bodies), log |-> r.log, missed |-> r.missed]
        : r \in {PairResolution(cfg, IntegratePass(cfg, w.bodies, h),
                                [log |-> w.log, missed |-> w.missed])} })

RECURSIVE RBSubsteps(_, _, _, _)
RBSubsteps(cfg, w, h, sub) ==
  IF sub <= 0 THEN w
  ELSE The({ RBSubsteps(cfg, next, h, sub - 1) : next \in {RBSubstep(cfg, w, h)} })

\* rigid_body_system.cpp:12-149  RigidBodySystem::step(world, dt)
RBStep(dt) ==
  /\ rbSteps < MaxRBSteps
  /\ \E w \in {RBSubsteps(rbCfg, [bodies |-> rbBodies, log |-> <<>>, missed |-> <<>>],
                          TruncDiv(dt, Max2(1, rbCfg.substeps)), Max2(1, rbCfg.substeps))} :
       /\ rbBodies' = w.bodies
       /\ rbLog' = w.log
       /\ rbMissed' = w.missed
  /\ rbSteps' = rbSteps + 1
  /\ UNCHANGED <<rbCfg, rbPre, nonRbVars>>

\* Bodies scene setup may append (rigid_body.hpp:7-13): dynamic spheres of
\* two radii starting below their ground target, at rest or moving down and to
\* the left; one falling from above; a kinematic and a massless one.
RBBodies ==
  { [position |-> <<x, 100, 0>>, velocity |-> v, mass |-> 1000, radius |-> r, kinematic |-> FALSE] :
      x \in {0, 300}, v \in {<<0, 0, 0>>, <<-1000, -2000, 0>>}, r \in {200, 250} }
  \cup
  { [position |-> <<0, 600, 0>>, velocity |-> <<-1000, -2000, 0>>, mass |-> 1000, radius |-> 200,
     kinematic |-> FALSE],
    [position |-> <<300, 100, 0>>, velocity |-> <<-1000, -2000, 0>>, mass |-> 1000, radius |-> 200,
     kinematic |-> TRUE],
    [position |-> <<300, 600, 0>>, velocity |-> <<-1000, 0, 0>>, mass |-> 1000, radius |-> 200,
     kinematic |-> TRUE],
    [position |-> <<300, 100, 0>>, velocity |-> <<-1000, -2000, 0>>, mass |-> 0, radius |-> 200,
     kinematic |-> FALSE] }

RBDts == {200}

InitRB ==
  /\ \E n \in 0..MaxRB : rbBodies \in [1..n -> RBBodies]
  /\ rbCfg \in RBConfigs
  /\ rbLog = <<>>
  /\ rbMissed = <<>>
  /\ rbSteps = 0
  /\ rbPre = NoPre
  /\ SchedUnused
  /\ NLUnused
  /\ MDUnused

NextRB == \E dt \in RBDts : RBStep(dt)

SpecRB == InitRB /\ [][NextRB]_vars

\* =================================================================
\* MDSystem::step
\* =================================================================
\* Lengths, velocities, masses, energies and dt are fixed-point integers with
\* Q units per 1.0, as for the rigid bodies.  Squared distances that are only
\* compared are kept in units of 1/Q^2 (Dist2); a value that is not finite
\* (inf or NaN in the source) is recorded by the flag nan of the particle.

\* md_system.cpp:15,50,84,144  rc = cfg.rcut_sigma * cfg.sigma
MDCutoff(cfg) == MulQ(cfg.rcut_sigma, cfg.sigma)

\* md_system.cpp:83-91, 143-148  the NeighborListConfig MDSystem fills in
\* (cell_size_factor keeps its default 1.0)
MDListConfig(cfg, dmin, dmax) ==
  [cutoff |-> MDCutoff(cfg), skin |-> cfg.nlist_skin, csfNum |-> 1, csfDen |-> 1,
   domain_min |-> dmin, domain_max |-> dmax, enable_stats |-> TRUE]

\* md_system.cpp:90-91  the domain the constructor assumes
MDCtorMin == <<-10 * Q, -10 * Q, -10 * Q>>
MDCtorMax == <<10 * Q, 10 * Q, 10 * Q>>

\* neighbor_list.cpp:8-10  a NeighborList object just constructed from cfg
NLNew(cfg) ==
  [cfg |-> cfg, grid |-> SetupGrid(cfg),
   cells |-> [c \in 0..(TotalCells(SetupGrid(cfg)) - 1) |-> <<>>],
   pairs |-> <<>>, ref |-> <<>>, valid |-> FALSE,
   stats |-> [total_builds |-> 0, total_checks |-> 0, max_disp_sq |-> 0, num_pairs |-> 0]]

\* neighbor_list.cpp:56-85  the object after build(pos)
NLBuilt(nl, pos) ==
  The({ The({ [nl EXCEPT !.cells = cells, !.pairs = prs, !.ref = pos, !.valid = TRUE,
                         !.stats = IF nl.cfg.enable_stats
                                   THEN [@ EXCEPT !.total_builds = @ + 1, !.num_pairs = Len(prs)]
                                   ELSE @]
              : prs \in {BuildPairs(nl.cfg, nl.grid, cells, pos)} })
        : cells \in {AssignCells(nl.cfg, nl.grid, pos)} })

\* neighbor_list.cpp:158-163  max_disp_sq over the first k particles
RECURSIVE MaxDispSq(_, _, _)
MaxDispSq(ref, pos, k) ==
  IF k = 0 THEN 0 ELSE Max2(MaxDispSq(ref, pos, k - 1), Dist2(ref[k], pos[k]))

\* neighbor_list.cpp:153-175  NeighborList::needs_rebuild: the value returned;
\* max_disp_sq > (skin * 0.5)^2 is 4 * max_disp_sq > skin^2
NeedsRebuild_AtThreshold(nl, pos) ==
  IF ~nl.valid THEN TRUE
  ELSE IF Len(nl.ref) # Len(pos) THEN TRUE
  ELSE 4 * MaxDispSq(nl.ref, pos, Len(pos)) >= nl.cfg.skin * nl.cfg.skin
NeedsRebuild(nl, pos) ==
  IF ~nl.valid THEN TRUE
  ELSE IF Len(nl.ref) # Len(pos) THEN TRUE
  ELSE 4 * MaxDispSq(nl.ref, pos, Len(pos)) > nl.cfg.skin * nl.cfg.skin

\* neighbor_list.cpp:154-155, 169-172  the object after needs_rebuild(pos):
\* the statistics are written only past the two early returns
NLChecked(nl, pos) ==
  IF ~nl.valid \/ Len(nl.ref) # Len(pos) \/ ~nl.cfg.enable_stats THEN nl
  ELSE [nl EXCEPT !.stats = [@ EXCEPT !.total_checks = @ + 1,
                                      !.max_disp_sq = MaxDispSq(nl.ref, pos, Len(pos))]]

\* neighbor_list.cpp:153-175  NeighborList::needs_rebuild(positions), called
\* by the owner of the list with its current positions
NeedsRebuildCall ==
  /\ nlStats.total_checks < MaxChecks
  /\ \E nl \in {[cfg |-> nlCfg, grid |-> nlGrid, cells |-> nlCells, pairs |-> nlPairs,
                 ref |-> nlRef, valid |-> nlValid, stats |-> nlStats]} :
       \E after \in {NLChecked(nl, positions)} :
         /\ nlCfg' = after.cfg
         /\ nlGrid' = after.grid
         /\ nlCells' = after.cells
         /\ nlPairs' = after.pairs
         /\ nlRef' = after.ref
         /\ nlValid' = after.valid
         /\ nlStats' = after.stats
         /\ nlAsked' = [asked |-> TRUE, value |-> NeedsRebuild(nl, positions)]
  /\ UNCHANGED <<positions, nonNlVars>>

\* The owner of the particles drops the last one (World::md_particles is a
\* vector the application resizes; md_system.cpp:45-51 copies its size).
RemoveParticle ==
  /\ positions # <<>>
  /\ positions' = SubSeq(positions, 1, Len(positions) - 1)
  /\ nlAsked' = NoAsk
  /\ UNCHANGED <<nlCfg, nlGrid, nlCells, nlPairs, nlRef, nlValid, nlStats, nonNlVars>>

\* A shorter stretch of the line y = z = 1.
ShortLine == (0..2) \X {1} \X {1}

\* Lists with statistics on and off, with skin 1, 0 and 2.
NLCheckConfigs ==
  { c \in NLConfigs : c.domain_min = <<0, 0, 0>> /\ c.csfDen = 1 }

InitNLCheck ==
  /\ \E cfg \in NLCheckConfigs : NLConstructed(cfg)
  /\ \E n \in 0..MaxParticles : positions \in [1..n -> ShortLine]
  /\ SchedUnused
  /\ RBUnused
  /\ MDUnused

NextNLCheck ==
  \/ NLBuild
  \/ \E k \in 1..MaxParticles : MoveWithin(ShortLine, k, 1, 1)
  \/ Invalidate
  \/ RemoveParticle
  \/ NeedsRebuildCall

\* A list that is built, asked whether it needs a rebuild, and invalidated
\* while its particles drift in +x along a line and are dropped.
SpecNLCheck == InitNLCheck /\ [][NextNLCheck]_vars

\* md_system.cpp:127-135  componentwise minimum / maximum, starting from first
RECURSIVE BoxMin(_, _, _)
BoxMin(first, pos, k) ==
  IF k = 0 THEN first
  ELSE LET m == BoxMin(first, pos, k - 1)
       IN [a \in 1..3 |-> Min2(m[a], pos[k][a])]

RECURSIVE BoxMax(_, _, _)
BoxMax(first, pos, k) ==
  IF k = 0 THEN first
  ELSE LET m == BoxMax(first, pos, k - 1)
       IN [a \in 1..3 |-> Max2(m[a], pos[k][a])]

\* md_system.cpp:138  margin = 2.0 * (rcut_sigma * sigma + nlist_skin)
MDMargin_Cutoff(cfg) == MDCutoff(cfg)
MDMargin(cfg) == 2 * (MDCutoff(cfg) + cfg.nlist_skin)

\* md_system.cpp:127-151  the list MDSystem replaces neighbor_list_ with;
\* first is positions[0], the value g when the vector is empty
MDRebuilt(cfg, pos, g) ==
  LET first == IF Len(pos) > 0 THEN pos[1] ELSE g
      m     == MDMargin(cfg)
      pmin  == BoxMin(first, pos, Len(pos))
      pmax  == BoxMax(first, pos, Len(pos))
  IN The({ NLBuilt(fresh, pos)
           : fresh \in {NLNew(MDListConfig(cfg, [a \in 1..3 |-> pmin[a] - m],
                                                 [a \in 1..3 |-> pmax[a] + m]))} })

\* md_system.cpp:101-106  MDSystem::extract_positions
ExtractPositions(ps) == [k \in 1..Len(ps) |-> ps[k].position]

\* md_system.cpp:122  steps_since_check_ >= cfg_.nlist_check_interval
CheckDue_Late(since, interval) == since > interval
CheckDue(since, interval) == since >= interval

\* md_system.cpp:117-161  step 1 of integrate: neighbor-list maintenance.
\* sys is [nl, since, scratch]: neighbor_list_, steps_since_check_ and the
\* thread_local positions vector; g is what positions[0] yields on an empty vector.
MDMaintain(cfg, sys, ps, g) ==
  IF ~cfg.use_neighbor_list
  THEN [nl |-> sys.nl, since |-> sys.since, scratch |-> sys.scratch, builds |-> 0, oob |-> FALSE,
        checked |-> FALSE, rebuilt |-> FALSE, forced |-> FALSE]
  ELSE
    LET pos     == ExtractPositions(ps)
        s1      == sys.since + 1
        due     == CheckDue(s1, cfg.nlist_check_interval)
        rebuild == due /\ NeedsRebuild(sys.nl, pos)
    IN The({ The({ [nl |-> nl2,
                    since |-> IF due THEN 0 ELSE s1,
                    scratch |-> IF due \/ (nl1.pairs = <<>> /\ Len(ps) > 0) THEN pos ELSE sys.scratch,
                    builds |-> (IF rebuild THEN 1 ELSE 0)
                               + (IF nl1.pairs = <<>> /\ Len(ps) > 0 THEN 1 ELSE 0),
                    oob |-> rebuild /\ Len(pos) = 0,
                    checked |-> due, rebuilt |-> rebuild,
                    forced |-> nl1.pairs = <<>> /\ Len(ps) > 0]
                   : nl2 \in {IF nl1.pairs = <<>> /\ Len(ps) > 0 THEN NLBuilt(nl1, pos) ELSE nl1} })
             : nl1 \in {IF ~due THEN sys.nl
                        ELSE IF rebuild THEN MDRebuilt(cfg, pos, g)
                        ELSE NLChecked(sys.nl, pos)} })

\* md_system.cpp:27,65  if (r2 > rc2 || r2 == 0.0) continue;
LJSkipped_NoZeroGuard(r2, rc2) == r2 > rc2
LJSkipped(r2, rc2) == r2 > rc2 \/ r2 = 0

\* md_system.cpp:29-35, 67-72  mag, from r2 in units of 1/Q
LJMag(cfg, r2q) ==
  LET inv_r2 == DivQ(Q, r2q)
      inv_r6 == MulQ(MulQ(inv_r2, inv_r2), inv_r2)
      sig2   == MulQ(cfg.sigma, cfg.sigma)
      sig6   == MulQ(MulQ(sig2, sig2), sig2)
      sig12  == MulQ(sig6, sig6)
  IN MulQ(MulQ(MulQ(24 * Q, cfg.epsilon), inv_r2),
          MulQ(MulQ(MulQ(2 * Q, sig12), inv_r6), inv_r6) - MulQ(sig6, inv_r6))

\* md_system.cpp:25-39, 61-76  one pair of the force loop applied to the
\* accumulator acc = [f, nan]; a division by r2 that rounds to zero makes the
\* forces of both particles non-finite
LJPair(cfg, pos, acc, i, j) ==
  LET rij == VSub(pos[j], pos[i])
      r2  == VNorm2(rij)
      rc  == MDCutoff(cfg)
      r2q == TruncDiv(r2, Q)
  IN IF LJSkipped(r2, rc * rc) THEN acc
     ELSE IF r2q = 0
     THEN [acc EXCEPT !.nan = [k \in DOMAIN @ |-> @[k] \/ k \in {i, j}], !.div_zero = @ \/ r2 = 0]
     ELSE LET fij == VScale(rij, LJMag(cfg, r2q))
          IN [acc EXCEPT !.f = [@ EXCEPT ![i] = VSub(@, fij), ![j] = VAdd(@, fij)]]

RECURSIVE LJFold(_, _, _, _)
LJFold(cfg, pos, acc, prs) ==
  IF prs = <<>> THEN acc
  ELSE The({ LJFold(cfg, pos, next, Tail(prs))
             : next \in {LJPair(cfg, pos, acc, Head(prs)[1], Head(prs)[2])} })

\* md_system.cpp:22-24  the pairs the all-pairs loop visits, in order
AllPairs(n) ==
  Concat([i \in 1..n |-> [d \in 1..(n - i) |-> <<i, i + d>>]])

\* md_system.cpp:20,54  std::fill(forces.begin(), forces.end(), Vec3::zero())
ZeroForces(n) ==
  [f |-> [k \in 1..n |-> <<0, 0, 0>>], nan |-> [k \in 1..n |-> FALSE], div_zero |-> FALSE]

\* md_system.cpp:164-168, 179-183  one force evaluation: the neighbor-list loop
\* when the list exists and is not empty, the all-pairs loop otherwise
ForceEval(cfg, nl, ps) ==
  LET pos  == ExtractPositions(ps)
      used == cfg.use_neighbor_list /\ nl.pairs # <<>>
      rc   == MDCutoff(cfg)
  IN The({ [f |-> acc.f, nan |-> acc.nan, div_zero |-> acc.div_zero, used_list |-> used,
            pos |-> pos, pairs |-> IF used THEN nl.pairs ELSE AllPairs(Len(ps)),
            missed |-> IF ~used THEN {}
                       ELSE { pr \in (1..Len(ps)) \X (1..Len(ps)) :
                                /\ pr[1] < pr[2]
                                /\ ~LJSkipped(Dist2(pos[pr[1]], pos[pr[2]]), rc * rc)
                                /\ \A m \in 1..Len(nl.pairs) :
                                     nl.pairs[m] # pr /\ nl.pairs[m] # <<pr[2], pr[1]>> }]
           : acc \in {LJFold(cfg, pos, ZeroForces(Len(ps)),
                             IF used THEN nl.pairs ELSE AllPairs(Len(ps)))} })

\* md_system.cpp:173-174, 188-189  a = (1.0 / p.mass) * forces[i]; v += 0.5 * dt * a
HalfKick(p, f, fnan, dt) ==
  LET a == VScale(f, DivQ(Q, p.mass))
  IN [p EXCEPT !.velocity = VAdd(@, VScale(a, MulQ(Q \div 2, dt))), !.nan = @ \/ fnan]

\* md_system.cpp:175  p.position += dt * p.velocity
Drift(p, dt) == [p EXCEPT !.position = VAdd(@, VScale(p.velocity, dt))]

\* md_system.cpp:194-197  ke += 0.5 * mass * velocity.norm2() over the first k particles
RECURSIVE KineticEnergy(_, _)
KineticEnergy(ps, k) ==
  IF k = 0 THEN 0
  ELSE KineticEnergy(ps, k - 1) + MulQ(MulQ(Q \div 2, ps[k].mass), TruncDiv(VNorm2(ps[k].velocity), Q))

\* md_system.cpp:192-203  the Berendsen thermostat; ke / n with n = 0 and
\* temp / Tinst with Tinst = 0 divide by zero and give a non-finite lambda, as
\* does the square root of a negative number
Thermostat(cfg, ps, dt) ==
  LET n     == Len(ps)
      ke    == KineticEnergy(ps, n)
      tinst == IF n = 0 THEN 0 ELSE MulQ(DivQ(2 * Q, 3 * Q), TruncDiv(ke, n))
      arg   == IF tinst = 0 THEN 0 ELSE Q + MulQ(DivQ(dt, cfg.tau_thermo), DivQ(cfg.temp, tinst) - Q)
  IN IF ~cfg.nvt THEN [ps |-> ps, div_zero |-> FALSE]
     ELSE IF n = 0 \/ tinst = 0 \/ arg < 0
     THEN [ps |-> [k \in 1..n |-> [ps[k] EXCEPT !.nan = TRUE]], div_zero |-> n = 0 \/ tinst = 0]
     ELSE [ps |-> [k \in 1..n |-> [ps[k] EXCEPT !.velocity = VScale(@, ISqrt(arg * Q))]],
           div_zero |-> FALSE]

\* md_system.cpp:171-176  velocity half-step and position full-step
KickDrift(ps, e, dt) ==
  [k \in 1..Len(ps) |-> Drift(HalfKick(ps[k], e.f[k], e.nan[k], dt), dt)]

\* md_system.cpp:186-190  velocity half-step
Kick(ps, e, dt) ==
  [k \in 1..Len(ps) |-> HalfKick(ps[k], e.f[k], e.nan[k], dt)]

\* md_system.cpp:163-203  steps 2 to 6 of integrate, m being the outcome of step 1
Verlet(cfg, m, ps, dt) ==
  The({ The({ The({ The({ The({ [sys |-> [nl |-> m.nl, since |-> m.since, scratch |-> m.scratch],
                                 ps |-> th.ps, evals |-> <<e1, e2>>, builds |-> m.builds,
                                 oob |-> m.oob,
                                 last |-> [returned |-> TRUE, checked |-> m.checked,
                                           rebuilt |-> m.rebuilt, forced |-> m.forced],
                                 thermo |-> [applied |-> cfg.nvt, before |-> ps2,
                                             div_zero |-> th.div_zero]]
                                : th \in {Thermostat(cfg, ps2, dt)} })
                          : ps2 \in {Kick(ps1, e2, dt)} })
                    : e2 \in {ForceEval(cfg, m.nl, ps1)} })
              : ps1 \in {KickDrift(ps, e1, dt)} })
        : e1 \in {ForceEval(cfg, m.nl, ps)} })

\* md_system.cpp:108-204  MDSystem::integrate as a function of the system, the
\* particles, dt and g
MDIntegrate(cfg, sys, ps, dt, g) ==
  The({ Verlet(cfg, m, ps, dt) : m \in {MDMaintain(cfg, sys, ps, g)} })

\* What positions[0] may yield when the vector is empty (md_system.cpp:127).
Garbage == {<<0, 0, 0>>, <<3 * Q, 0, 0>>}

\* md_system.cpp:206-208  MDSystem::step(world, dt); a run is followed while
\* every particle is finite and every step has returned.  The read of
\* positions[0] on an empty vector either yields some value g or ends the
\* process with a memory fault (the vector's data pointer is null until it
\* first holds an element): the step then does not return.
MDStep(dt) ==
  /\ mdSteps < MaxMDSteps
  /\ mdLast.returned
  /\ \A k \in 1..Len(mdParticles) : ~mdParticles[k].nan
  /\ \E g \in (IF mdParticles = <<>> THEN Garbage ELSE {<<0, 0, 0>>}),
        fault \in (IF mdParticles = <<>> THEN BOOLEAN ELSE {FALSE}) :
       \E r \in {MDIntegrate(mdCfg,
                            [nl |-> [cfg |-> nlCfg, grid |-> nlGrid, cells |-> nlCells,
                                     pairs |-> nlPairs, ref |-> nlRef, valid |-> nlValid,
                                     stats |-> nlStats],
                             since |-> mdSince, scratch |-> positions],
                            mdParticles, dt, g)} :
          IF r.oob /\ fault
          THEN /\ mdOob' = TRUE
               /\ mdLast' = [r.last EXCEPT !.returned = FALSE]
               /\ UNCHANGED <<mdParticles, nlCfg, nlGrid, nlCells, nlPairs, nlRef, nlValid,
                              nlStats, positions, mdSince, mdBuilds, mdEvals, mdThermo>>
          ELSE /\ mdParticles' = r.ps
               /\ nlCfg' = r.sys.nl.cfg
               /\ nlGrid' = r.sys.nl.grid
               /\ nlCells' = r.sys.nl.cells
               /\ nlPairs' = r.sys.nl.pairs
               /\ nlRef' = r.sys.nl.ref
               /\ nlValid' = r.sys.nl.valid
               /\ nlStats' = r.sys.nl.stats
               /\ positions' = r.sys.scratch
               /\ mdSince' = r.sys.since
               /\ mdBuilds' = mdBuilds + r.builds
               /\ mdEvals' = r.evals
               /\ mdOob' = r.oob
               /\ mdThermo' = r.thermo
               /\ mdLast' = r.last
  /\ mdSteps' = mdSteps + 1
  /\ UNCHANGED <<mdCfg, nlAsked, nonMdVars>>

\* MDConfig values (md_system.hpp:12-24): the neighbor list checked every
\* step or every second step, and the all-pairs loop without and with the
\* thermostat.
MDConfigs ==
  { [MDDefault EXCEPT !.use_neighbor_list = TRUE, !.nlist_check_interval = 1],
    [MDDefault EXCEPT !.use_neighbor_list = TRUE, !.nlist_check_interval = 2],
    MDDefault,
    [MDDefault EXCEPT !.nvt = TRUE] }

\* Particles scene setup may push (particle.hpp:8-12): two at rest 1.2 apart
\* and one approaching them at speed 4.
MDParticleKinds ==
  { [position |-> <<0, 0, 0>>, velocity |-> <<0, 0, 0>>, mass |-> Q, nan |-> FALSE],
    [position |-> <<1200, 0, 0>>, velocity |-> <<0, 0, 0>>, mass |-> Q, nan |-> FALSE],
    [position |-> <<4050, 0, 0>>, velocity |-> <<-4000, 0, 0>>, mass |-> Q, nan |-> FALSE] }

MDDts == {100}

\* md_system.cpp:80-99  MDSystem::MDSystem, on a world holding up to MaxMD particles
InitMD ==
  /\ mdCfg \in MDConfigs
  /\ \E n \in 0..MaxMD : mdParticles \in [1..n -> MDParticleKinds]
  /\ mdSince = 0
  /\ mdSteps = 0
  /\ mdBuilds = 0
  /\ mdEvals = <<>>
  /\ mdOob = FALSE
  /\ mdThermo = [applied |-> FALSE, before |-> <<>>, div_zero |-> FALSE]
  /\ mdLast = NoStep
  /\ twin = NoTwin
  /\ IF mdCfg.use_neighbor_list
     THEN NLConstructed(MDListConfig(mdCfg, MDCtorMin, MDCtorMax))
     ELSE NLConstructed(CHOOSE c \in NLConfigs : c.enable_stats)
  /\ positions = <<>>
  /\ SchedUnused
  /\ RBUnused

NextMD == \E dt \in MDDts : MDStep(dt)

SpecMD == InitMD /\ [][NextMD]_vars

\* =================================================================
\* Two runs of World::step
\* =================================================================
\* Two Worlds are constructed alike, with a RigidBodySystem and an MDSystem
\* registered, and are stepped with the same calls.  The first lives in the
\* variables above, the second in twin.  Times and dt are in units of 1/Q.

\* rigid_body_system.cpp:12-149  RigidBodySystem::step as a function of the bodies
RBStepped(cfg, bodies, dt) ==
  RBSubsteps(cfg, [bodies |-> bodies, log |-> <<>>, missed |-> <<>>],
             TruncDiv(dt, Max2(1, cfg.substeps)), Max2(1, cfg.substeps)).bodies

\* scheduler.hpp:34  e.system->step(world, local_dt) on the world w; g is what
\* positions[0] yields on an empty vector in this run
SystemStepOf(name, w, h, g) ==
  IF name = "RigidBodySystem"
  THEN [w EXCEPT !.bodies = RBStepped(rbCfg, @, h)]
  ELSE The({ [w EXCEPT !.ps = md.ps, !.sys = md.sys]
             : md \in {MDIntegrate(mdCfg, w.sys, w.ps, h, g)} })

\* scheduler.hpp:33-35  the substep loop of one entry
RECURSIVE SubstepsOf(_, _, _, _, _)
SubstepsOf(name, w, h, s, g) ==
  IF s <= 0 THEN w
  ELSE The({ SubstepsOf(name, w1, h, s - 1, g) : w1 \in {SystemStepOf(name, w, h, g)} })

\* scheduler.hpp:30-37  Scheduler::tick over the entries es
RECURSIVE TickOf(_, _, _, _)
TickOf(es, w, dt, g) ==
  IF es = <<>> THEN w
  ELSE The({ TickOf(Tail(es), w1, dt, g)
             : w1 \in {SubstepsOf(Head(es).system, w, LocalDt(dt, Head(es).substeps),
                                  Head(es).substeps, g)} })

\* world.hpp:23-26  World::step(dt) on the world w
WorldStepOf_TimeFromRead(w, dt, g) ==
  The({ [w1 EXCEPT !.time = @ + dt + g[1]] : w1 \in {TickOf(entries, w, dt, g)} })
WorldStepOf(w, dt, g) ==
  The({ [w1 EXCEPT !.time = @ + dt] : w1 \in {TickOf(entries, w, dt, g)} })

\* The first World and its MDSystem, as a record.
World1 ==
  [on |-> TRUE, time |-> time, bodies |-> rbBodies, ps |-> mdParticles,
   sys |-> [nl |-> [cfg |-> nlCfg, grid |-> nlGrid, cells |-> nlCells, pairs |-> nlPairs,
                    ref |-> nlRef, valid |-> nlValid, stats |-> nlStats],
            since |-> mdSince, scratch |-> positions]]

\* The same World::step(dt) call on both worlds; when a world has no particle
\* each run reads its own value out of bounds.
TwinStep(dt) ==
  /\ twin.on
  /\ nticks < MaxTicks
  /\ \A k \in 1..Len(mdParticles) : ~mdParticles[k].nan
  /\ \A k \in 1..Len(twin.ps) : ~twin.ps[k].nan
  /\ \E g1 \in (IF mdParticles = <<>> THEN Garbage ELSE {<<0, 0, 0>>}),
        g2 \in (IF twin.ps = <<>> THEN Garbage ELSE {<<0, 0, 0>>}) :
       \E r1 \in {WorldStepOf(World1, dt, g1)}, r2 \in {WorldStepOf(twin, dt, g2)} :
          /\ time' = r1.time
          /\ rbBodies' = r1.bodies
          /\ mdParticles' = r1.ps
          /\ nlCfg' = r1.sys.nl.cfg
          /\ nlGrid' = r1.sys.nl.grid
          /\ nlCells' = r1.sys.nl.cells
          /\ nlPairs' = r1.sys.nl.pairs
          /\ nlRef' = r1.sys.nl.ref
          /\ nlValid' = r1.sys.nl.valid
          /\ nlStats' = r1.sys.nl.stats
          /\ positions' = r1.sys.scratch
          /\ mdSince' = r1.sys.since
          /\ twin' = r2
  /\ nticks' = nticks + 1
  /\ UNCHANGED <<entries, bodyX, pc, tickDt, ei, si, calls, tickStart, sumDt,
                 rbCfg, rbLog, rbMissed, rbSteps, rbPre,
                 mdCfg, mdSteps, mdBuilds, mdEvals, mdOob, mdThermo, mdLast, nlAsked>>

\* Registration orders and substep counts of the two systems.
TwinSchedules ==
  { << [system |-> "RigidBodySystem", substeps |-> 1], [system |-> "MDSystem", substeps |-> 1] >>,
    << [system |-> "MDSystem", substeps |-> 2], [system |-> "RigidBodySystem", substeps |-> 1] >> }

\* Rigid bodies of the scene: none, or a dynamic sphere overlapping a kinematic one.
TwinBodies ==
  { <<>>,
    << [position |-> <<0, 100, 0>>, velocity |-> <<-1000, -2000, 0>>, mass |-> 1000,
        radius |-> 200, kinematic |-> FALSE],
       [position |-> <<300, 100, 0>>, velocity |-> <<-1000, -2000, 0>>, mass |-> 1000,
        radius |-> 200, kinematic |-> TRUE] >> }

\* Particles of the scene: none, the approaching one, or all three kinds.
TwinParticles ==
  { <<>>,
    << [position |-> <<4050, 0, 0>>, velocity |-> <<-4000, 0, 0>>, mass |-> Q, nan |-> FALSE] >>,
    << [position |-> <<0, 0, 0>>, velocity |-> <<0, 0, 0>>, mass |-> Q, nan |-> FALSE],
       [position |-> <<1200, 0, 0>>, velocity |-> <<0, 0, 0>>, mass |-> Q, nan |-> FALSE],
       [position |-> <<4050, 0, 0>>, velocity |-> <<-4000, 0, 0>>, mass |-> Q, nan |-> FALSE] >> }

TwinDts == {50, 100}

InitTwin ==
  /\ entries \in TwinSchedules
  /\ time = 0
  /\ bodyX = <<>>
  /\ pc = "idle"
  /\ tickDt = 0
  /\ ei = 1
  /\ si = 0
  /\ calls = <<>>
  /\ tickStart = 0
  /\ sumDt = 0
  /\ nticks = 0
  /\ rbBodies \in TwinBodies
  /\ rbCfg \in RBConfigs
  /\ rbLog = <<>>
  /\ rbMissed = <<>>
  /\ rbSteps = 0
  /\ rbPre = NoPre
  /\ mdCfg \in MDConfigs
  /\ mdParticles \in TwinParticles
  /\ mdSince = 0
  /\ mdSteps = 0
  /\ mdBuilds = 0
  /\ mdEvals = <<>>
  /\ mdOob = FALSE
  /\ mdThermo = [applied |-> FALSE, before |-> <<>>, div_zero |-> FALSE]
  /\ mdLast = NoStep
  /\ IF mdCfg.use_neighbor_list
     THEN NLConstructed(MDListConfig(mdCfg, MDCtorMin, MDCtorMax))
     ELSE NLConstructed(CHOOSE c \in NLConfigs : c.enable_stats)
  /\ positions = <<>>
  /\ twin = World1

NextTwin == \E dt \in TwinDts : TwinStep(dt)

SpecTwin == InitTwin /\ [][NextTwin]_vars

\* =================================================================
\* resolve_initial_overlaps and the warm-up ticks
\* =================================================================

PrepassBuffer == 1         \* overlap_checker.hpp:64  (1e-3)
PrepassTol == 0            \* overlap_checker.hpp:67,89  (1e-6, below the unit)
PrepassIterations == 100   \* rigid_body_system.hpp:59  resolve_initial_overlaps(world, 100)
WarmupTicks == 10          \* rigid_body_system.hpp:92  for (int step = 0; step < 10; ++step)

\* overlap_checker.hpp:73-74  a.kinematic || a.mass <= 0.0
PrepassKinematic(b) == b.kinematic \/ b.mass <= 0

\* overlap_checker.hpp:59-85  one pair of one pass, st = [bodies, max_overlap, log];
\* a log entry records a corrected pair, its overlap and the two bodies before
\* (a0, b0) and after (a1, b1);
\* dist = sqrt(max(d2, 1e-16)) is below the unit when d2 = 0 and n = d / dist is
\* then the zero vector
PrepassPair(st, i, j) ==
  LET a       == st.bodies[i]
      b       == st.bodies[j]
      d       == VSub(b.position, a.position)
      dist    == ISqrt(VNorm2(d))
      overlap == a.radius + b.radius + PrepassBuffer - dist
      n       == IF dist = 0 THEN <<0, 0, 0>>
                 ELSE <<DivQ(d[1], dist), DivQ(d[2], dist), DivQ(d[3], dist)>>
      half    == VScale(n, TruncDiv(overlap, 2))
      full    == VScale(n, overlap)
      moved   == IF ~PrepassKinematic(a) /\ ~PrepassKinematic(b)
                 THEN [st.bodies EXCEPT ![i].position = VSub(@, half), ![j].position = VAdd(@, half)]
                 ELSE IF ~PrepassKinematic(a)
                 THEN [st.bodies EXCEPT ![i].position = VSub(@, full)]
                 ELSE IF ~PrepassKinematic(b)
                 THEN [st.bodies EXCEPT ![j].position = VAdd(@, full)]
                 ELSE st.bodies
  IN IF overlap <= PrepassTol THEN st
     ELSE [bodies |-> moved,
           max_overlap |-> Max2(st.max_overlap, overlap),
           log |-> Append(st.log, [i |-> i, j |-> j, overlap |-> overlap,
                                   a0 |-> a, b0 |-> b, a1 |-> moved[i], b1 |-> moved[j]])]

\* overlap_checker.hpp:57-87  one pass over the pairs i < j
RECURSIVE PrepassFold(_, _)
PrepassFold(st, prs) ==
  IF prs = <<>> THEN st
  ELSE The({ PrepassFold(next, Tail(prs)) : next \in {PrepassPair(st, Head(prs)[1], Head(prs)[2])} })

\* overlap_checker.hpp:50-101  resolve_initial_overlaps: the bodies it leaves and
\* whether it returned from line 91 (max_overlap < 1e-6); a pass that finds an
\* overlap and moves nothing is repeated unchanged up to max_iterations
RECURSIVE PrepassIterate(_, _, _)
PrepassIterate(bodies, iter, max_iterations) ==
  IF iter >= max_iterations THEN [bodies |-> bodies, converged |-> FALSE, visits |-> <<>>]
  ELSE The({ IF st.max_overlap <= PrepassTol
             THEN [bodies |-> st.bodies, converged |-> TRUE, visits |-> st.log]
             ELSE IF st.bodies = bodies
             THEN [bodies |-> bodies, converged |-> FALSE, visits |-> st.log]
             ELSE The({ [r EXCEPT !.visits = st.log \o @]
                        : r \in {PrepassIterate(st.bodies, iter + 1, max_iterations)} })
             : st \in {PrepassFold([bodies |-> bodies, max_overlap |-> 0, log |-> <<>>],
                                   AllPairs(Len(bodies)))} })

\* rigid_body_system.hpp:59  resolve_initial_overlaps(world, 100), before the first tick
ResolveInitialOverlaps ==
  /\ ~rbPre.done
  /\ rbSteps = 0
  /\ \E r \in {PrepassIterate(rbBodies, 0, PrepassIterations)} :
       /\ rbBodies' = r.bodies
       /\ rbPre' = [done |-> TRUE, before |-> rbBodies, after |-> r.bodies,
                    converged |-> r.converged, visits |-> r.visits]
  /\ UNCHANGED <<rbCfg, rbLog, rbMissed, rbSteps, nonRbVars>>

\* rigid_body_system.hpp:92-94  one of the ten world.step(dt) of the warm-up,
\* the RigidBodySystem being the only system registered, with substep count 1
WarmTick(dt) ==
  /\ rbPre.done
  /\ rbSteps < WarmupTicks
  /\ \E w \in {RBSubsteps(rbCfg, [bodies |-> rbBodies, log |-> <<>>, missed |-> <<>>],
                          TruncDiv(dt, Max2(1, rbCfg.substeps)), Max2(1, rbCfg.substeps))} :
       /\ rbBodies' = w.bodies
       /\ rbLog' = w.log
       /\ rbMissed' = w.missed
  /\ rbSteps' = rbSteps + 1
  /\ UNCHANGED <<rbCfg, rbPre, nonRbVars>>

\* The pair-non-overlap invariant: every pair of bodies has centre distance
\* >= r_i + r_j + contact_offset - penetration_slop.
PairNonOverlap(cfg, bodies) ==
  \A i, j \in 1..Len(bodies) :
    i < j =>
      LET sep == bodies[i].radius + bodies[j].radius + cfg.contact_offset - cfg.penetration_slop
      IN sep <= 0 \/ Dist2(bodies[i].position, bodies[j].position) >= sep * sep

\* Scenes of two spheres of radius 0.2 (rigid_body.hpp:7-13): a dynamic one on
\* the ground at one of several distances from the second, at rest or sliding
\* toward it; the second is dynamic on the ground, kinematic on the ground, or
\* kinematic and hovering above the ground.
WarmScenes ==
  { << [position |-> <<x, 200, 0>>, velocity |-> v, mass |-> 1000, radius |-> 200,
        kinematic |-> FALSE],
       [position |-> <<0, y, 0>>, velocity |-> <<0, 0, 0>>, mass |-> 1000, radius |-> 200,
        kinematic |-> k] >> :
      x \in {0, 300, 400, 405, 600}, v \in {<<0, 0, 0>>, <<-300, 0, 0>>},
      y \in {200, 500}, k \in BOOLEAN }

WarmDts == {100}

InitWarm ==
  /\ rbBodies \in WarmScenes
  /\ rbCfg \in RBConfigs
  /\ rbLog = <<>>
  /\ rbMissed = <<>>
  /\ rbSteps = 0
  /\ rbPre = NoPre
  /\ SchedUnused
  /\ NLUnused
  /\ MDUnused

NextWarm ==
  \/ ResolveInitialOverlaps
  \/ \E dt \in WarmDts : WarmTick(dt)

SpecWarm == InitWarm /\ [][NextWarm]_vars

\* =================================================================
\* Claims about the Scheduler and World
\* =================================================================

\* Scheduler::add keeps every earlier entry at its index.
AddKeepsEarlier ==
  /\ Len(entries') >= Len(entries)
  /\ \A k \in 1..Len(entries) : entries'[k] = entries[k]

\* The calls a tick has made so far are calls of registered systems, ordered by
\* registration index: no call of an earlier entry follows a call of a later one.
CallsInRegistrationOrder ==
  /\ \A k \in 1..Len(calls) :
       /\ calls[k].idx \in 1..Len(entries)
       /\ calls[k].system = entries[calls[k].idx].system
  /\ \A k \in 1..(Len(calls) - 1) : calls[k].idx <= calls[k + 1].idx
  /\ pc = "tick" => \A k \in 1..Len(calls) : calls[k].idx <= ei

\* C1: one tick calls step on the systems in registration order, all substeps
\* of one system before the first substep of the next, and add never reorders
\* or removes earlier entries.
C1_TickInRegistrationOrder == [][AddKeepsEarlier /\ CallsInRegistrationOrder']_vars

\* C1 witness: a tick has called two different systems, the first one more than once.
C1_Witness ==
  /\ Len(calls) >= 3
  /\ calls[1].idx = 1 /\ calls[2].idx = 1
  /\ calls[Len(calls)].idx = 2
  /\ calls[1].system # calls[Len(calls)].system

\* The last completed World::step ran exactly A then B, one substep each.
RanAThenB ==
  /\ pc = "idle"
  /\ nticks >= 1
  /\ calls = << [idx |-> 1, system |-> "A", h |-> tickDt],
                [idx |-> 2, system |-> "B", h |-> tickDt] >>

\* C2 as stated: with A then B registered (substeps 1 each), after one
\* World::step(dt) on a fresh world every body has position.x = 2*dt.
C2_Original ==
  (RanAThenB /\ nticks = 1) => \A k \in DOMAIN bodyX : bodyX[k] = Dbl(2 * tickDt)

\* C2 amended: after a World::step(dt) that ran A then B, every body has
\* position.x equal to twice the world time at which that step began: 0 after
\* the first step on a fresh world, 2*dt after the second step of the same dt.
C2_TwiceTimeAtStepBegin ==
  RanAThenB => /\ \A k \in DOMAIN bodyX : bodyX[k] = Dbl(2 * tickStart)
               /\ nticks = 1 => \A k \in DOMAIN bodyX : bodyX[k] = Dbl(0)

\* C2 witness: the second step of a run of A then B leaves a body at a non-zero x.
C2_Witness ==
  /\ RanAThenB
  /\ nticks = 2
  /\ Len(bodyX) >= 1
  /\ tickStart = tickDt
  /\ bodyX[1] = Dbl(2 * tickDt)

\* C3: each World::step(dt) increases time by exactly dt whatever is registered;
\* time never decreases and equals the sum of the dt values of the completed steps.
C3_TimeAdvancesByDt ==
  [][ /\ time' >= time
      /\ (pc = "tick" /\ pc' = "idle") => time' = time + tickDt
      /\ pc' = "idle" => time' = sumDt' ]_vars

\* C3 witness: two steps completed on a world without bodies, with a system
\* of several substeps called.
C3_Witness ==
  /\ pc = "idle"
  /\ nticks = 2
  /\ bodyX = <<>>
  /\ Len(calls) >= 3
  /\ time = sumDt
  /\ time > tickDt

\* C4: for every entry with substeps s >= 1, one tick calls its step exactly s
\* times, each with h = dt / s, and the increments sum to dt.
C4_SubstepsSplitDt ==
  (pc = "tick" /\ ei > Len(entries)) =>
    \A k \in 1..Len(entries) :
      entries[k].substeps >= 1 =>
        LET cs == SelectSeq(calls, LAMBDA c : c.idx = k)
        IN /\ Len(cs) = entries[k].substeps
           /\ \A m \in 1..Len(cs) : cs[m].h * entries[k].substeps = tickDt
           /\ \A m \in 1..Len(cs) : cs[m].h = cs[1].h
           /\ SumSeq([m \in 1..Len(cs) |-> cs[m].h]) = tickDt

\* C4 witness: a tick about to return after calling an entry of MaxSubsteps substeps.
C4_Witness ==
  /\ pc = "tick"
  /\ ei > Len(entries)
  /\ \E k \in 1..Len(entries) :
       /\ entries[k].substeps = MaxSubsteps
       /\ Len(SelectSeq(calls, LAMBDA c : c.idx = k)) = MaxSubsteps

\* =================================================================
\* Claims about NeighborList::build
\* =================================================================

\* The unordered pair {i, j} is in the pair list.
Listed(i, j) == \E m \in 1..Len(nlPairs) : nlPairs[m] = <<i, j>> \/ nlPairs[m] = <<j, i>>

\* C7: after build, every pair (i, j) of the pair list satisfies i < j, for
\* pairs within one cell and for pairs across two cells.
C7_PairsOrdered ==
  nlValid => \A m \in 1..Len(nlPairs) : nlPairs[m][1] < nlPairs[m][2]

\* C8: after build, the pair list contains every pair of distinct particles
\* whose separation at the build snapshot is <= cutoff + skin, for every valid
\* configuration and for particles inside or outside the domain.
C8_AllPairsWithinListRange ==
  nlValid =>
    \A i \in 1..Len(nlRef), j \in 1..Len(nlRef) :
      (i < j /\ Dist2(nlRef[i], nlRef[j]) <= (nlCfg.cutoff + nlCfg.skin) * (nlCfg.cutoff + nlCfg.skin))
        => Listed(i, j)

\* C9: after build, no unordered pair appears more than once in the pair list
\* and no pair (i, i) appears.
C9_NoDuplicatePairs ==
  /\ \A m \in 1..Len(nlPairs) : nlPairs[m][1] # nlPairs[m][2]
  /\ \A m \in 1..Len(nlPairs), n \in 1..Len(nlPairs) :
       m < n => {nlPairs[m][1], nlPairs[m][2]} # {nlPairs[n][1], nlPairs[n][2]}

\* C9 witness: a built list holding a pair of particles whose cells differ
\* along x only, in a grid that has a single cell along y and along z.
C9_Witness ==
  /\ nlValid
  /\ Len(nlPairs) >= 1
  /\ nlGrid[1] > 1 /\ nlGrid[2] = 1 /\ nlGrid[3] = 1
  /\ GetCellIndex(nlCfg, nlGrid, nlRef[nlPairs[1][1]])
       # GetCellIndex(nlCfg, nlGrid, nlRef[nlPairs[1][2]])

\* C10: while no particle has moved more than skin/2 from its position at the
\* last build, every pair of particles whose current separation is <= cutoff
\* is in the pair list as an unordered pair.
C10_CutoffPairsListed ==
  ( /\ nlValid
    /\ Len(positions) = Len(nlRef)
    /\ \A k \in 1..Len(positions) :
         4 * Dist2(nlRef[k], positions[k]) <= nlCfg.skin * nlCfg.skin )
  => \A i \in 1..Len(positions), j \in 1..Len(positions) :
       (i < j /\ Dist2(positions[i], positions[j]) <= nlCfg.cutoff * nlCfg.cutoff)
         => Listed(i, j)

\* =================================================================
\* Claims about RigidBodySystem::step
\* =================================================================

Immovable(rb) == rb.kinematic \/ rb.mass <= 0

\* C5: a RigidBodySystem step never changes the position or the velocity of a
\* kinematic body, nor of a body with non-positive mass.
C5_ImmovableUntouched ==
  [][ \A k \in 1..Len(rbBodies) :
        Immovable(rbBodies[k]) =>
          /\ rbBodies'[k].position = rbBodies[k].position
          /\ rbBodies'[k].velocity = rbBodies[k].velocity ]_vars

\* C6: after every RigidBodySystem step, every non-kinematic body of positive
\* mass has position.y >= ground_y + radius + contact_offset - penetration_slop.
C6_GroundContainment ==
  rbSteps > 0 =>
    \A k \in 1..Len(rbBodies) :
      ~Immovable(rbBodies[k]) =>
        rbBodies[k].position[2] >=
          rbCfg.ground_y + rbBodies[k].radius + rbCfg.contact_offset - rbCfg.penetration_slop

\* C6 witness: a step whose pair resolution moved two dynamic bodies, one of
\* which ends exactly on its ground target.
C6_Witness ==
  /\ rbSteps > 0
  /\ \E m \in 1..Len(rbLog) :
       /\ ~rbLog[m].skipped
       /\ ~Immovable(rbBodies[rbLog[m].i])
       /\ ~Immovable(rbBodies[rbLog[m].j])
       /\ rbBodies[rbLog[m].i].position[2] = GroundTargetY(rbCfg, rbBodies[rbLog[m].i])

\* =================================================================
\* Claims about MDSystem::step
\* =================================================================

\* C11: at every force evaluation made with the neighbor list (the one at t
\* and the one at t+h of every step), every pair of particles the all-pairs
\* loop would process (separation <= rcut_sigma*sigma) is in the pair list.
C11_NoPairMissed ==
  \A k \in 1..Len(mdEvals) : mdEvals[k].missed = {}

\* C12: with zero particles, MDSystem::step reads no element of the position
\* array and changes no particle state, in neighbor-list and all-pairs mode.
C12_ZeroParticlesNoop ==
  [][ mdParticles = <<>> => (~mdOob' /\ mdParticles' = mdParticles) ]_vars

\* C13: when nvt is set and there are fewer than 2 particles or the
\* instantaneous temperature is 0 (every velocity is zero), the thermostat
\* leaves every velocity unchanged and divides by zero nowhere.
C13_ThermostatSkips ==
  ( /\ mdThermo.applied
    /\ \/ Len(mdThermo.before) < 2
       \/ \A k \in 1..Len(mdThermo.before) : mdThermo.before[k].velocity = <<0, 0, 0>> )
  => (mdParticles = mdThermo.before /\ ~mdThermo.div_zero)

\* C16: total_builds as returned by MDSystem::neighbor_stats() equals the
\* number of neighbor-list builds the MD system has made since construction,
\* and never decreases from one step to the next.
C16_TotalBuildsCounts ==
  [][ /\ mdCfg.use_neighbor_list => nlStats'.total_builds = mdBuilds'
      /\ nlStats'.total_builds >= nlStats.total_builds ]_vars

\* The forces the evaluation e of the last step yields when the pairs of
\* coincident particles are taken out of the pairs it visits.
ForcesWithoutCoincident(e) ==
  LJFold(mdCfg, e.pos, ZeroForces(Len(e.pos)),
         SelectSeq(e.pairs, LAMBDA pr : e.pos[pr[1]] # e.pos[pr[2]]))

\* C20: in both force evaluations, a pair of particles at identical positions
\* contributes no force to either particle and causes no division by zero;
\* with only two coincident particles both forces are zero.
C20_CoincidentPairNoForce ==
  \A k \in 1..Len(mdEvals) :
    LET e == mdEvals[k]
    IN /\ ~e.div_zero
       /\ e.f = ForcesWithoutCoincident(e).f
       /\ e.nan = ForcesWithoutCoincident(e).nan
       /\ (Len(e.pos) = 2 /\ e.pos[1] = e.pos[2]) => e.f = << <<0, 0, 0>>, <<0, 0, 0>> >>

\* C20 witness: a force evaluation over a neighbor list that holds a pair of
\* coincident particles, with a third particle exerting a force on both.
C20_Witness ==
  /\ Len(mdEvals) = 2
  /\ mdEvals[1].used_list
  /\ \E m \in 1..Len(mdEvals[1].pairs) :
       LET pr == mdEvals[1].pairs[m]
       IN /\ mdEvals[1].pos[pr[1]] = mdEvals[1].pos[pr[2]]
          /\ mdEvals[1].f[pr[1]] # <<0, 0, 0>>
          /\ mdEvals[1].f[pr[1]] = mdEvals[1].f[pr[2]]

\* =================================================================
\* Claims about Scheduler::add
\* =================================================================

\* C14: the scheduler never holds an entry whose substep count is below 1:
\* registering a system with a non-positive substep count is rejected.
C14_SubstepsPositive ==
  \A k \in 1..Len(entries) : entries[k].substeps >= 1

\* =================================================================
\* Claims about the NeighborList constructor
\* =================================================================

\* neighbor_list.cpp:24-26  cell_size_ = domain_size / n is positive on every axis
CellSizePositive(cfg, grid) ==
  \A a \in 1..3 : grid[a] >= 1 /\ DomainSize(cfg)[a] > 0

\* C15: a list whose cutoff is <= 0, or whose domain_max is not strictly
\* greater than domain_min on some axis, is never built: no built list has
\* such a configuration or a non-positive cell size.
C15_InvalidConfigNeverBuilt ==
  nlValid => /\ nlCfg.cutoff > 0
             /\ \A a \in 1..3 : nlCfg.domain_max[a] > nlCfg.domain_min[a]
             /\ CellSizePositive(nlCfg, nlGrid)

\* =================================================================
\* Claims about repeated runs
\* =================================================================

C18_PrepassNoop ==
  (rbPre.done /\ PairNonOverlap(rbCfg, rbPre.before)) => rbPre.after = rbPre.before

\* C19: after the pre-pass has resolved a scene and ten ticks of the
\* rigid-body system have been applied, every pair of bodies satisfies the
\* pair-non-overlap invariant.
C19_CleanAfterWarmup ==
  (rbPre.converged /\ rbSteps = WarmupTicks) => PairNonOverlap(rbCfg, rbBodies)

\* =================================================================
\* Claims about termination
\* =================================================================

\* C21: every step call made by World::step returns, for any particle count,
\* zero included.
C21_EveryStepReturns ==
  mdLast.returned

\* =================================================================
\* Claims about rebuilding the NeighborList
\* =================================================================

\* The number of times the pair pr occurs in the pair list prs.
PairCount(prs, pr) == Cardinality({m \in 1..Len(prs) : prs[m] = pr})

\* C22: a build on the positions the list was last built on leaves the same
\* multiset of pairs: no pair of the earlier build is left behind, none is added.
C22_RebuildSamePairs ==
  [][ (nlValid /\ nlRef = positions /\ nlValid' /\ nlRef' = positions')
      => /\ Len(nlPairs') = Len(nlPairs)
         /\ \A m \in 1..Len(nlPairs) : PairCount(nlPairs', nlPairs[m]) = PairCount(nlPairs, nlPairs[m]) ]_vars

\* C22 witness: a list built twice on the same positions that holds a pair.
C22_Witness ==
  /\ nlValid
  /\ nlStats.total_builds >= 2
  /\ nlRef = positions
  /\ nlPairs # <<>>

\* ------------------------------------------------------------------
\* Claims about NeighborList::needs_rebuild

\* C23: needs_rebuild returns true exactly when the list is invalid, or the
\* number of positions differs from the number of reference positions, or some
\* particle's squared displacement from its reference position is strictly
\* greater than (skin/2)^2; the call leaves the pair list, the reference
\* positions and the validity flag as they were.
C23_NeedsRebuildAnswer ==
  [][ nlAsked'.asked =>
        /\ nlAsked'.value <=>
             \/ ~nlValid
             \/ Len(positions) # Len(nlRef)
             \/ \E k \in 1..Len(positions) :
                  4 * Dist2(nlRef[k], positions[k]) > nlCfg.skin * nlCfg.skin
        /\ nlPairs' = nlPairs
        /\ nlRef' = nlRef
        /\ nlValid' = nlValid ]_vars

\* a valid list over as many particles as it was built from answers true
\* because a particle has moved
C23_Witness ==
  /\ nlAsked.asked
  /\ nlAsked.value
  /\ nlValid
  /\ Len(nlRef) = Len(positions)
  /\ nlPairs # <<>>


\* ------------------------------------------------------------------
\* Claims about the neighbor-list maintenance of MDSystem

\* C24: with the neighbor list enabled and check interval K, the step that
\* evaluates the rebuild check is exactly every K-th one, and the step counter
\* is zero after a check, rebuild or not (so it counts the steps since then).
C24_CheckEveryKth ==
  (mdCfg.use_neighbor_list /\ mdSteps > 0)
    => /\ mdLast.checked <=> (mdSteps % mdCfg.nlist_check_interval = 0)
       /\ mdLast.returned => mdSince = mdSteps % mdCfg.nlist_check_interval

\* the second step of a system with interval 2 checked and did not rebuild
C24_Witness ==
  /\ mdCfg.use_neighbor_list
  /\ mdCfg.nlist_check_interval = 2
  /\ mdSteps = 2
  /\ mdLast.checked
  /\ ~mdLast.rebuilt
  /\ mdSince = 0

\* C25: with particles and the neighbor list enabled, the first step builds
\* the list before its first force evaluation; a later step builds only as a
\* scheduled check whose list reports needs-rebuild, and this also when the
\* last build left the pair list empty.
C25_BuildOnlyWhenScheduled ==
  (mdCfg.use_neighbor_list /\ mdParticles # <<>> /\ mdSteps > 0)
    => /\ mdSteps = 1 => (mdLast.rebuilt \/ mdLast.forced)
       /\ mdSteps > 1 => ~mdLast.forced

\* C26: after a rebuild triggered by the periodic check, the domain of the
\* list is the bounding box of the positions it was built on, widened by
\* 2 * (cutoff + skin) on every face, and the cell coordinates of every
\* particle are within the grid before the clamp.
C26_DomainIsWidenedBox ==
  (mdLast.rebuilt /\ mdLast.returned /\ positions # <<>>)
    => \A a \in 1..3 :
         LET m == 2 * (nlCfg.cutoff + nlCfg.skin)
         IN /\ \A k \in 1..Len(positions) :
                 /\ nlCfg.domain_min[a] + m <= positions[k][a]
                 /\ positions[k][a] <= nlCfg.domain_max[a] - m
                 /\ RawCellCoords(nlCfg, nlGrid, positions[k])[a] \in 0..(nlGrid[a] - 1)
            /\ \E k \in 1..Len(positions) : positions[k][a] = nlCfg.domain_min[a] + m
            /\ \E k \in 1..Len(positions) : positions[k][a] = nlCfg.domain_max[a] - m

\* a periodic check rebuilt the list over particles spread over several cells
C26_Witness ==
  /\ mdLast.rebuilt
  /\ mdLast.returned
  /\ mdLast.checked
  /\ Len(positions) >= 2
  /\ \E k \in 1..Len(positions) :
       GetCellIndex(nlCfg, nlGrid, positions[k]) # GetCellIndex(nlCfg, nlGrid, positions[1])

\* ------------------------------------------------------------------
\* Claims about rigid-body pair resolution

MovedBy(p, q) == ISqrt(Dist2(p, q))

\* C28: for each overlapping pair, resolve_initial_overlaps moves both bodies
\* by half the overlap when both are dynamic and the dynamic one by the full
\* overlap when the other is kinematic or has non-positive mass, apart along
\* the centre line (to within the rounding of the unit); it moves no kinematic
\* or non-positive-mass body and changes no velocity.
C28_PrepassMoves ==
  \A m \in 1..Len(rbPre.visits) :
    LET e  == rbPre.visits[m]
        ka == PrepassKinematic(e.a0)
        kb == PrepassKinematic(e.b0)
        da == MovedBy(e.a0.position, e.a1.position)
        db == MovedBy(e.b0.position, e.b1.position)
        gap0 == MovedBy(e.a0.position, e.b0.position)
        gap1 == MovedBy(e.a1.position, e.b1.position)
    IN /\ e.a1.velocity = e.a0.velocity
       /\ e.b1.velocity = e.b0.velocity
       /\ ka => e.a1.position = e.a0.position
       /\ kb => e.b1.position = e.b0.position
       /\ (~ka /\ ~kb) => /\ 2 * da \in (e.overlap - 4)..(e.overlap + 4)
                          /\ 2 * db \in (e.overlap - 4)..(e.overlap + 4)
       /\ (~ka /\ kb) => da \in (e.overlap - 2)..(e.overlap + 2)
       /\ (ka /\ ~kb) => db \in (e.overlap - 2)..(e.overlap + 2)
       /\ ~(ka /\ kb) => gap1 - gap0 \in (e.overlap - 4)..(e.overlap + 4)

\* ------------------------------------------------------------------
\* Claims about the broad phase of the rigid-body pair resolution

\* C29: in one pair-resolution iteration every unordered pair of bodies is
\* resolved at most once, and only as (i, j) with j > i.
C29_PairOncePerIteration ==
  \A m \in 1..Len(rbLog) :
    /\ rbLog[m].i < rbLog[m].j
    /\ \A k \in 1..Len(rbLog) :
         (k # m /\ rbLog[k].pass = rbLog[m].pass)
           => {rbLog[k].i, rbLog[k].j} # {rbLog[m].i, rbLog[m].j}

\* a pair was resolved in an iteration that moved one of its bodies into
\* another cell than the grid of the iteration holds it in
C29_Witness ==
  \E m \in 1..Len(rbLog) :
    /\ ~rbLog[m].skipped
    /\ \/ CellOf(rbLog[m].a1.position, CellSize(rbBodies))
            # CellOf(rbLog[m].a0.position, CellSize(rbBodies))
       \/ CellOf(rbLog[m].b1.position, CellSize(rbBodies))
            # CellOf(rbLog[m].b0.position, CellSize(rbBodies))

\* C30: in every pair-resolution iteration, every pair (i, j), i < j, closer
\* than r_i + r_j + contact_offset when body i is processed is examined by
\* the 27-cell stencil.
C30_NoPairLeftOut ==
  rbMissed = <<>>

====
